---------------------------- MODULE Spec2Model ----------------------------
(***************************************************************************)
(* A model of src/rvm.py: the Relevance Vector Machine regression of      *)
(* BaseRVM / RVR.  The estimator object is the record `self`; fit() is    *)
(* stepped statement block by statement block (pc), predict() is one      *)
(* action on a fitted estimator.                                          *)
(*                                                                         *)
(* Floating point values are modelled exactly, as extended rationals:     *)
(* a pair <<n, d>> with d > 0 and gcd(n, d) = 1 is the number n/d, and    *)
(* <<1,0>>, <<-1,0>>, <<0,0>> are +inf, -inf and nan, with the IEEE-754   *)
(* rules numpy applies to them (x/0, inf*0, comparisons with nan ...).    *)
(* Such a pair is a numpy float64.  The parameter beta is a Python number, *)
(* a triple <<n,1,"int">> or <<n,d,"float">>: Python divides by it with   *)
(* its own rules (line 205).                                              *)
(* Rounding is not modelled and signed zeros are not distinguished: the   *)
(* values of the model are those of the code up to rounding.  Where        *)
(* rounding decides what line 195 does (a pivot that is zero only in      *)
(* exact arithmetic) the model takes either outcome, and when fit goes on *)
(* its values are rounding residues: a pair <<s, -1>> is such a double,   *)
(* one the model does not determine.  The inputs are chosen so that       *)
(* rounding decides no other branch (TiesAreExact below is an invariant   *)
(* of Spec).                                                              *)
(*                                                                         *)
(* One estimator is followed through its public calls: fit, predict and   *)
(* set_params, each of which may be called again on a used estimator.     *)
(***************************************************************************)
EXTENDS Integers, Sequences, FiniteSets, TLC

VARIABLES
    self,      \* the estimator: constructor parameters and fitted attributes
    pc,        \* position inside fit(), or which call returned last
    i,         \* the loop variable of fit's for loop
    delta,     \* the local `delta` of fit
    raised,    \* the exception the last call raised, or "none"
    strict,    \* the numpy build: TRUE when a boolean index of the wrong length raises
    event,     \* the last diagnostic block printed by this fit (or NoEvent)
    hist,      \* history: per completed pass of this fit, what the loop saw
    snap,      \* history: the per-basis state just before the last _prune() call
    result,    \* what the last predict() returned (or NoResult)
    exact,     \* history: this fit has computed no value that doubles would round
    budget,    \* calls still followed on an estimator that has been used
    blas       \* the BLAS build: whether it tests for zeros ("unobserved" until
               \* an inversion meets a nan or an inf, where it matters)

vars == <<self, pc, i, delta, raised, strict, event, hist, snap, result, exact,
          budget, blas>>

-----------------------------------------------------------------------------
(* Extended rational arithmetic (numpy float semantics without rounding).  *)

Zero == <<0, 1>>
One  == <<1, 1>>
Inf  == <<1, 0>>
NInf == <<-1, 0>>
NaN  == <<0, 0>>

AbsI(a) == IF a < 0 THEN -a ELSE a

RECURSIVE Gcd(_, _)
Gcd(a, b) == IF b = 0 THEN a ELSE Gcd(b, a % b)

\* n/d in lowest terms with a positive denominator (d # 0).
Q(n, d) ==
    LET s == IF d < 0 THEN -1 ELSE 1
        g == Gcd(AbsI(n), AbsI(d))
    IN  <<(s * n) \div g, (s * d) \div g>>

I(n) == <<n, 1>>

\* A double the model does not determine, and the same once a comparison
\* of the code (line 95 with threshold_alpha, line 170 with tol) has come
\* out: below the bound it was compared with, or not below it.
Residue   == <<0, -1>>
ResidueLt == <<-1, -1>>
ResidueGe == <<1, -1>>

IsNaN(a)    == a = NaN
IsResidue(a)    == a[2] < 0
IsFinite(a) == a[2] # 0
Sgn(a)      == IF a[1] > 0 THEN 1 ELSE IF a[1] < 0 THEN -1 ELSE 0
SignedInf(s) == IF s < 0 THEN NInf ELSE Inf

Neg(a) == IF IsResidue(a) THEN Residue ELSE <<-a[1], a[2]>>

Add(a, b) ==
    IF IsNaN(a) \/ IsNaN(b) THEN NaN
    ELSE IF IsResidue(a) \/ IsResidue(b) THEN Residue
    ELSE IF ~IsFinite(a) THEN (IF ~IsFinite(b) /\ b # a THEN NaN ELSE a)
    ELSE IF ~IsFinite(b) THEN b
    ELSE Q(a[1] * b[2] + b[1] * a[2], a[2] * b[2])

Sub(a, b) == Add(a, Neg(b))

Mul(a, b) ==
    IF IsNaN(a) \/ IsNaN(b) THEN NaN
    ELSE IF IsResidue(a) \/ IsResidue(b) THEN Residue
    ELSE IF ~IsFinite(a) \/ ~IsFinite(b)
         THEN (IF Sgn(a) * Sgn(b) = 0 THEN NaN ELSE SignedInf(Sgn(a) * Sgn(b)))
    ELSE Q(a[1] * b[1], a[2] * b[2])

Div(a, b) ==
    IF IsNaN(a) \/ IsNaN(b) THEN NaN
    ELSE IF IsResidue(a) \/ IsResidue(b) THEN Residue
    ELSE IF ~IsFinite(a)
         THEN (IF ~IsFinite(b) THEN NaN
               ELSE SignedInf(Sgn(a) * (IF Sgn(b) < 0 THEN -1 ELSE 1)))
    ELSE IF ~IsFinite(b) THEN Zero
    ELSE IF b[1] = 0 THEN (IF a[1] = 0 THEN NaN ELSE SignedInf(Sgn(a)))
    ELSE Q(a[1] * b[2], a[2] * b[1])

\* A Python int n and a Python float n/d, and the float64 either is
\* converted to when numpy computes with it.
PyInt(n)      == <<n, 1, "int">>
PyFloat(n, d) == <<n, d, "float">>
IsInt(a)      == Len(a) = 3 /\ a[3] = "int"
IsPyFloat(a)  == Len(a) = 3 /\ a[3] = "float"
Float(a)      == <<a[1], a[2]>>

\* 1/n for Python 2 ints (n # 0): the quotient is floored.
FloorOneOver(n) ==
    IF n = 1 THEN 1 ELSE IF n = -1 THEN -1 ELSE IF n > 1 THEN 0 ELSE -1

\* a < b as numpy evaluates it: FALSE whenever an operand is nan.  For a
\* double the model does not determine, what the code's comparison gave.
Lt(a, b) ==
    IF IsNaN(a) \/ IsNaN(b) THEN FALSE
    ELSE IF IsResidue(a) THEN a = ResidueLt
    ELSE IF IsResidue(b) THEN FALSE
    ELSE IF a = Inf \/ b = NInf THEN FALSE
    ELSE IF a = NInf \/ b = Inf THEN TRUE
    ELSE a[1] * b[2] < b[1] * a[2]

Absolute(a) == IF IsResidue(a) THEN Residue ELSE <<AbsI(a[1]), a[2]>>

\* The values doubles hold without rounding, at the sizes met here: inf,
\* nan, and the rationals whose denominator is a power of two.
RECURSIVE PowerOfTwo(_)
PowerOfTwo(d) == d = 1 \/ (d > 1 /\ d % 2 = 0 /\ PowerOfTwo(d \div 2))

Dyadic(a) == ~IsResidue(a) /\ (~IsFinite(a) \/ PowerOfTwo(a[2]))
DyadicV(v) == \A j \in 1..Len(v) : Dyadic(v[j])
DyadicM(M) == \A r \in 1..Len(M) : DyadicV(M[r])

\* An array whose entries are computed once, when it is built.
Arr(f) == f \o <<>>

\* np.amax of a non-empty vector: nan if any entry is nan, else the largest.
RECURSIVE AmaxFrom(_, _, _)
AmaxFrom(v, j, best) ==
    IF j > Len(v) THEN best
    ELSE IF IsNaN(best) \/ IsNaN(v[j]) THEN NaN
    ELSE IF IsResidue(best) \/ IsResidue(v[j]) THEN AmaxFrom(v, j + 1, Residue)
    ELSE AmaxFrom(v, j + 1, IF Lt(best, v[j]) THEN v[j] ELSE best)

Amax(v) == AmaxFrom(v, 2, v[1])

RECURSIVE SumFrom(_, _)
SumFrom(v, j) == IF j > Len(v) THEN Zero ELSE Add(v[j], SumFrom(v, j + 1))

\* np.sum of a vector
Sum(v) == SumFrom(v, 1)

\* np.dot of two vectors of equal length
Dot(u, v) == Sum(Arr([j \in 1..Len(u) |-> Mul(u[j], v[j])]))

\* column c of a matrix given as a sequence of rows
Col(M, c) == Arr([r \in 1..Len(M) |-> M[r][c]])

\* np.dot(M, v): matrix times vector
MatVec(M, v) == Arr([r \in 1..Len(M) |-> Dot(M[r], v)])


-----------------------------------------------------------------------------
(* np.linalg.inv, line 195: LAPACK gesv on the identity, i.e. LU           *)
(* factorisation with partial pivoting (getrf) followed by the two         *)
(* triangular solves (getrs), carried out here on the rows of [A | I].     *)
(* A pivot that is zero is numpy's LinAlgError("Singular matrix").  On nan *)
(* and inf the result depends on the BLAS build.  The reference one forms  *)
(* every multiplier (0/nan = nan) but leaves out the products by an entry  *)
(* of the pivot row that is zero (the test of dger and of dtrsm) and, in   *)
(* the back substitution, everything a zero right-hand side entails; an    *)
(* optimised one has no such test and propagates nan and inf through every *)
(* product.  testsZeros tells which.  On finite matrices the two agree.    *)

Aug(A) ==
    Arr([r \in 1..Len(A) |->
        Arr([c \in 1..(2 * Len(A)) |->
            IF c <= Len(A) THEN A[r][c]
            ELSE IF c - Len(A) = r THEN One ELSE Zero])])

HasNonFinite(A) ==
    \E r \in 1..Len(A) : \E c \in 1..Len(A[r]) : ~IsFinite(A[r][c])

HasResidue(A) ==
    \E r \in 1..Len(A) : \E c \in 1..Len(A[r]) : IsResidue(A[r][c])

RECURSIVE PivotFrom(_, _, _, _)
PivotFrom(M, c, r, p) ==
    IF r > Len(M) THEN p
    ELSE PivotFrom(M, c, r + 1,
                   IF Lt(Absolute(M[p][c]), Absolute(M[r][c])) THEN r ELSE p)

Swap(M, a, b) ==
    Arr([r \in 1..Len(M) |-> IF r = a THEN M[b] ELSE IF r = b THEN M[a] ELSE M[r]])

EliminateBelow(M, c, testsZeros) ==
    Arr([r \in 1..Len(M) |->
        IF r <= c THEN M[r]
        ELSE LET l == Div(M[r][c], M[c][c])
             IN  Arr([j \in 1..Len(M[r]) |->
                     IF j <= c THEN M[r][j]
                     ELSE IF testsZeros /\ M[c][j] = Zero THEN M[r][j]
                     ELSE Sub(M[r][j], Mul(l, M[c][j]))])])

\* the multipliers of column c are held by doubles without rounding
MultipliersDyadic(M, c) ==
    \A r \in (c + 1)..Len(M) : Dyadic(Div(M[r][c], M[c][c]))

\* ok: no pivot is zero.  exact: doubles compute every value met on the way
\* without rounding, so that they meet the same pivots.
RECURSIVE Forward(_, _, _)
Forward(M, c, testsZeros) ==
    IF c > Len(M) THEN [ok |-> TRUE, M |-> M, exact |-> DyadicM(M)]
    ELSE LET p == PivotFrom(M, c, c + 1, c)
             N == Swap(M, c, p)
         IN  IF M[p][c] = Zero THEN [ok |-> FALSE, M |-> M, exact |-> DyadicM(M)]
             ELSE LET f == Forward(EliminateBelow(N, c, testsZeros), c + 1, testsZeros)
                  IN  [f EXCEPT !.exact = /\ f.exact
                                          /\ DyadicM(M)
                                          /\ MultipliersDyadic(N, c)]

\* Entries r..k of the solution of U x = (column k+j of M), U the upper
\* triangle of the left block: each with the right-hand side b it was
\* divided from.  dtrsm tests b: when it is zero the entry stays zero and
\* takes no part in the entries above it.
RECURSIVE BackSolve(_, _, _, _)
BackSolve(M, j, r, testsZeros) ==
    IF r > Len(M) THEN <<>>
    ELSE LET rest == BackSolve(M, j, r + 1, testsZeros)
             acc  == Sum(Arr([c \in 1..Len(rest) |->
                             IF testsZeros /\ rest[c].b = Zero THEN Zero
                             ELSE Mul(M[r][r + c], rest[c].x)]))
             b    == Sub(M[r][Len(M) + j], acc)
         IN  <<[b |-> b,
                x |-> IF testsZeros /\ b = Zero THEN Zero ELSE Div(b, M[r][r])]>>
             \o rest

\* n by n doubles the model does not determine
Residues(n) == Arr([r \in 1..n |-> Arr([c \in 1..n |-> Residue])])

\* ok and S are those of exact arithmetic.  When exact is FALSE the doubles
\* of line 195 are rounded: S is the inverse up to rounding when ok, and
\* when not ok the pivot that is zero here need not be zero there.  Of a
\* matrix of doubles the model does not determine, so is the inverse.
Inv(A, testsZeros) ==
    IF HasResidue(A) THEN [ok |-> TRUE, S |-> Residues(Len(A)), exact |-> FALSE]
    ELSE
    LET f    == Forward(Aug(A), 1, testsZeros)
        cols == Arr([j \in 1..Len(A) |-> BackSolve(f.M, j, 1, testsZeros)])
        S    == Arr([r \in 1..Len(A) |-> Arr([c \in 1..Len(A) |-> cols[c][r].x])])
    IN  IF f.ok
        THEN [ok |-> TRUE, S |-> S, exact |-> f.exact /\ DyadicM(S)]
        ELSE [ok |-> FALSE, S |-> <<>>, exact |-> f.exact]

-----------------------------------------------------------------------------
(* Boolean-mask indexing.                                                  *)

RECURSIVE SelectFrom(_, _, _)
SelectFrom(v, mask, j) ==
    IF j > Len(mask) THEN <<>>
    ELSE (IF mask[j] THEN <<v[j]>> ELSE <<>>) \o SelectFrom(v, mask, j + 1)

\* v[mask] for a mask as long as v: the entries at the True places, in order
Select(v, mask) == SelectFrom(v, mask, 1)

\* Mutant of SelectCols: the kept columns come out in reverse order.
SelectColsMirrored(M, mask) ==
    Arr([r \in 1..Len(M) |->
            LET kept == Select(M[r], mask)
            IN  Arr([c \in 1..Len(kept) |-> kept[Len(kept) + 1 - c]])])

\* M[:, mask]
SelectCols(M, mask) == Arr([r \in 1..Len(M) |-> Select(M[r], mask)])

\* M[np.ix_(mask, mask)]
SelectBoth(M, mask) == SelectCols(Select(M, mask), mask)

\* keep_alpha[:-1]
DropLast(mask) == SubSeq(mask, 1, Len(mask) - 1)

\* a[mask] raises IndexError: always when a True place lies beyond a, and,
\* on a numpy that rejects mismatched boolean indices, when the lengths differ.
IndexRaises(a, mask, strictBuild) ==
    \/ strictBuild /\ Len(mask) # Len(a)
    \/ \E j \in 1..Len(mask) : mask[j] /\ j > Len(a)

-----------------------------------------------------------------------------
(* Bounds of the model and the inputs it draws.                            *)

MaxIter     == 4      \* n_iter ranges over 0..MaxIter
MaxVerbFreq == 2      \* verb_freq ranges over 1..MaxVerbFreq
MaxReuse    == 2      \* set_params/fit calls followed on a used estimator

LiftV(v) == Arr([j \in 1..Len(v) |-> I(v[j])])
LiftM(M) == Arr([r \in 1..Len(M) |-> LiftV(M[r])])

\* Training sets (X, y) with integer entries: one, two and three basis
\* functions; as many samples as columns, fewer, and more; one with a
\* column of zeros.
DataAny ==
    { [X |-> <<<<1>>>>,                            y |-> <<0>>],
      [X |-> <<<<1>>>>,                            y |-> <<1>>],
      [X |-> <<<<1>>>>,                            y |-> <<2>>],
      [X |-> <<<<1, 0>>, <<0, 1>>>>,               y |-> <<0, 1>>],
      [X |-> <<<<1, 0>>, <<0, 1>>>>,               y |-> <<1, 0>>],
      [X |-> <<<<1, 1>>>>,                         y |-> <<1>>],
      [X |-> <<<<0, 1>>>>,                         y |-> <<1>>],
      [X |-> <<<<1, 1, 1>>>>,                      y |-> <<1>>],
      [X |-> <<<<1, 0>>, <<0, 1>>, <<0, 0>>>>,     y |-> <<1, 1, 0>>],
      [X |-> <<<<1, 0, 0>>, <<0, 1, 0>>, <<0, 0, 1>>>>, y |-> <<1, 0, 1>>],
      [X |-> <<<<1, 0, 0>>, <<0, 1, 0>>, <<0, 0, 1>>>>, y |-> <<0, 1, 1>>],
      [X |-> <<<<1, 0, 0>>, <<0, 1, 0>>, <<0, 0, 1>>>>, y |-> <<0, 0, 1>>] }

\* Training sets fitted only with beta_fixed: with beta re-estimated their
\* exact values outgrow 32-bit integers within MaxIter passes.
DataFixedBeta ==
    { [X |-> <<<<1, 0>>, <<0, 1>>>>,               y |-> <<1, 1>>],
      [X |-> <<<<1, 0>>, <<0, 1>>>>,               y |-> <<2, 1>>],
      [X |-> <<<<1, 0>>, <<0, 1>>>>,               y |-> <<1, 2>>],
      [X |-> <<<<1, 0, 0>>, <<0, 1, 0>>, <<0, 0, 1>>>>, y |-> <<1, 1, 1>>] }

\* A training set whose X^T X is singular, with an elimination that doubles
\* round.
DataSingular ==
    { [X |-> <<<<1, 2, 3>>, <<4, 5, 6>>, <<7, 8, 9>>>>, y |-> <<1, 2, 3>>] }

\* The training set fitted with the smallest tol: its delta is 1/2, 1/8,
\* 1/32, 1/128, so that no pass before the one of index 3 is below it.
DataSlow ==
    { [X |-> <<<<1>>>>,                            y |-> <<2>>] }

\* Training sets a used estimator is fitted to again.
DataAgain ==
    { [X |-> <<<<1>>>>,                            y |-> <<1>>],
      [X |-> <<<<1, 0>>, <<0, 1>>>>,               y |-> <<1, 0>>] }

Thresholds == { I(1), Q(9, 4), I(100) }   \* threshold_alpha
Tols       == { Q(3, 128), Q(3, 4), Q(9, 4) }   \* tol
Alphas     == { Zero, One }               \* alpha (initial precision; 0 makes a singular system reachable)
Betas      == { PyFloat(1, 1), PyInt(2), PyFloat(0, 1) }   \* beta (initial noise precision): 1.0, the int 2, 0.0

\* Keyword arguments set_params() is called with: constructor parameters
\* and an attribute that fit assigns.
Kwargs ==
    { << <<"bias_used", TRUE>> >>,
      << <<"threshold_alpha", I(100)>>, <<"n_iter", 1>> >>,
      << <<"alpha_", <<I(9)>> >> >> }

\* The input predict() is called with, for a model of k columns: two
\* different rows.
NewInputs(k) ==
    { << Arr([j \in 1..k |-> One]), Arr([j \in 1..k |-> I(j + 1)]) >> }

Unset    == <<>>     \* an attribute not assigned yet
None     == <<>>     \* Python's None, for self.bias
NoEvent  == <<>>
NoResult == <<>>

-----------------------------------------------------------------------------
(* BaseRVM.__init__: the constructor copies its arguments.                 *)

Construct(n_iter, tol, alpha, threshold_alpha, beta, beta_fixed, bias_used, verbose, verb_freq) ==
    [ n_iter |-> n_iter, tol |-> tol, alpha |-> alpha,
      threshold_alpha |-> threshold_alpha, beta |-> beta,
      beta_fixed |-> beta_fixed, bias_used |-> bias_used,
      verbose |-> verbose, verb_freq |-> verb_freq,
      phi |-> Unset, labels |-> Unset, relevance_ |-> Unset, y |-> Unset,
      alpha_ |-> Unset, beta_ |-> Unset, m_ |-> Unset, alpha_old |-> Unset,
      sigma_ |-> Unset, gamma |-> Unset, bias |-> Unset ]

\* The estimators whose reuse is followed, and the only ones built with a
\* beta other than 1.0: one pass at most, quiet, alpha = 1, tol = 3/4.
Narrow(s) ==
    /\ s.n_iter <= 1
    /\ s.tol = Q(3, 4)
    /\ s.alpha = One
    /\ ~s.verbose
    /\ s.verb_freq = 1

\* The estimators DataSingular is fitted by: alpha = 0, where X^T X is the
\* system of line 194; quiet, of three passes at most; one threshold_alpha
\* and one tol, no value of such a fit being determined that they would be
\* compared with.
FitsSingular(s) ==
    /\ s.alpha = Zero
    /\ s.n_iter <= 3
    /\ ~s.verbose
    /\ s.threshold_alpha = Q(9, 4)
    /\ s.tol = Q(3, 4)

Init ==
    /\ \E n_iter \in 0..MaxIter, tol \in Tols, alpha \in Alphas,
          threshold_alpha \in Thresholds, beta \in Betas,
          beta_fixed \in BOOLEAN, bias_used \in BOOLEAN,
          verbose \in BOOLEAN, verb_freq \in 1..MaxVerbFreq :
            /\ self = Construct(n_iter, tol, alpha, threshold_alpha, beta,
                                beta_fixed, bias_used, verbose, verb_freq)
            /\ beta # PyFloat(1, 1) => Narrow(self)
            /\ ~verbose => verb_freq = 1
            /\ tol = Q(3, 128) => (alpha = One /\ ~verbose)
    /\ budget = IF Narrow(self) THEN MaxReuse ELSE 0
    /\ strict \in BOOLEAN
    /\ pc = "new"
    /\ i = 0
    /\ delta = Unset
    /\ raised = "none"
    /\ event = NoEvent
    /\ hist = <<>>
    /\ snap = <<>>
    /\ result = NoResult
    /\ exact = TRUE
    /\ blas = "unobserved"

-----------------------------------------------------------------------------
(* fit, lines 129-146: the attributes set before the loop.  X_labels names *)
(* the basis functions, the bias column excepted.                          *)

NLabels(s, X) == Len(X[1]) - (IF s.bias_used THEN 1 ELSE 0)

FitInit(s, X, y, X_labels) ==
    [s EXCEPT !.phi = X,
              !.labels = X_labels,
              !.relevance_ = X,
              !.y = y,
              !.alpha_ = Arr([j \in 1..Len(X[1]) |-> s.alpha]),
              !.beta_ = s.beta,
              !.m_ = Arr([j \in 1..Len(X[1]) |-> Zero]),
              !.alpha_old = Arr([j \in 1..Len(X[1]) |-> s.alpha])]

\* The positions between two public calls, and those inside fit.
Rest  == {"new", "set", "done", "predicted", "error"}
InFit == {"for", "update", "prune", "diag", "converge", "break"}

\* fit has assigned its attributes at least once
Fitted(s) == s.phi # Unset

\* fit is entered, on a new estimator or on a used one: nothing but the
\* assignments of lines 133-146 separates the two, so a used estimator keeps
\* its parameters as the last calls left them and its old sigma_, gamma, bias.
FitStart ==
    /\ pc = "new" \/ (pc \in Rest /\ budget > 0)
    /\ budget' = IF pc = "new" THEN budget ELSE budget - 1
    /\ \E d \in (IF Fitted(self) THEN DataAgain
                 ELSE DataAny \cup DataFixedBeta \cup DataSingular) :
          /\ d \in DataFixedBeta => self.beta_fixed
          /\ d \in DataSingular => FitsSingular(self)
          /\ self.tol = Q(3, 128) => d \in DataSlow
          /\ self' = FitInit(self, LiftM(d.X), LiftV(d.y),
                             Arr([j \in 1..NLabels(self, d.X) |-> j]))
    /\ pc' = "for"
    /\ i' = 0
    /\ delta' = Unset
    /\ raised' = "none"
    /\ event' = NoEvent
    /\ hist' = <<>>
    /\ snap' = <<>>
    /\ result' = NoResult
    /\ exact' = TRUE
    /\ UNCHANGED <<strict, blas>>

-----------------------------------------------------------------------------
(* RVR._posterior, lines 192-196.                                          *)

\* i_s = np.diag(alpha_) + beta_ * np.dot(phi.T, phi)
PrecisionMatrix(s) ==
    Arr([a \in 1..Len(s.alpha_) |->
        Arr([b \in 1..Len(s.alpha_) |->
            Add(IF a = b THEN s.alpha_[a] ELSE Zero,
                Mul(Float(s.beta_), Dot(Col(s.phi, a), Col(s.phi, b))))])])

\* m_ = beta_ * np.dot(sigma_, np.dot(phi.T, y))
PosteriorMean(s, sigma) ==
    LET Xty == Arr([a \in 1..Len(s.alpha_) |-> Dot(Col(s.phi, a), s.y)])
        Sv  == MatVec(sigma, Xty)
    IN  Arr([a \in 1..Len(s.alpha_) |-> Mul(Float(s.beta_), Sv[a])])

\* The builds an inversion of A may be run on: the one already observed,
\* or either when A is the first matrix to hold a nan or an inf.
BlasFor(A) ==
    IF blas = "unobserved" /\ HasNonFinite(A) THEN {"tests zeros", "propagates"}
    ELSE {blas}

\* Line 149.  A system that is singular in exact arithmetic raises when the
\* doubles are exact too; when they are rounded, line 195 raises or returns
\* a sigma_ of rounding residues, and fit goes on with them.
Posterior ==
    /\ pc = "for"
    /\ i < self.n_iter
    /\ \E b \in BlasFor(PrecisionMatrix(self)) :
          LET inv == Inv(PrecisionMatrix(self), b = "tests zeros")
          IN  /\ blas' = b
              /\ \/ /\ inv.ok
                    /\ self' = [self EXCEPT !.sigma_ = inv.S,
                                             !.m_ = PosteriorMean(self, inv.S)]
                    /\ pc' = "update"
                    /\ exact' = (exact /\ inv.exact /\ DyadicV(self'.m_))
                    /\ UNCHANGED raised
                 \/ /\ ~inv.ok
                    /\ pc' = "error"
                    /\ raised' = "LinAlgError"
                    /\ exact' = (exact /\ inv.exact)
                    /\ UNCHANGED self
                 \/ /\ ~inv.ok
                    /\ ~(exact /\ inv.exact)
                    /\ self' = [self EXCEPT
                                  !.sigma_ = Residues(Len(self.alpha_)),
                                  !.m_ = PosteriorMean(self, Residues(Len(self.alpha_)))]
                    /\ pc' = "update"
                    /\ exact' = FALSE
                    /\ UNCHANGED raised
    /\ UNCHANGED <<i, delta, strict, event, hist, snap, result, budget>>

-----------------------------------------------------------------------------
(* fit, lines 151-156: gamma, alpha and the noise precision.               *)

\* gamma = 1 - alpha_ * np.diag(sigma_)
Gamma(s) ==
    Arr([j \in 1..Len(s.alpha_) |-> Sub(One, Mul(s.alpha_[j], s.sigma_[j][j]))])

\* alpha_ = gamma / (m_ ** 2)
NewAlpha(gamma, m) ==
    Arr([j \in 1..Len(gamma) |-> Div(gamma[j], Mul(m[j], m[j]))])

\* np.sum((y - np.dot(phi, m_)) ** 2)
ResidualSS(s) ==
    LET r == Arr([n \in 1..Len(s.y) |-> Sub(s.y[n], Dot(s.phi[n], s.m_))])
    IN  Sum(Arr([n \in 1..Len(r) |-> Mul(r[n], r[n])]))

\* n_samples - np.sum(gamma)
BetaNumerator(s, gamma) == Sub(I(Len(s.y)), Sum(gamma))

\* What a vector or a value may be once the code has compared it: a double
\* the model does not determine lies below the bound or does not.
Compared(a) == IF a = Residue THEN {ResidueLt, ResidueGe} ELSE {a}

RECURSIVE ComparedFrom(_, _)
ComparedFrom(v, j) ==
    IF j > Len(v) THEN { <<>> }
    ELSE { <<a>> \o w : a \in Compared(v[j]), w \in ComparedFrom(v, j + 1) }

ComparedV(v) == ComparedFrom(v, 1)

NewBeta(s, gamma) ==
    IF s.beta_fixed THEN s.beta_
    ELSE Div(BetaNumerator(s, gamma), ResidualSS(s))

Update ==
    /\ pc = "update"
    /\ LET gamma == Gamma(self)
       IN  \E alpha_ \in ComparedV(NewAlpha(gamma, self.m_)) :
               self' = [self EXCEPT !.gamma = gamma,
                                    !.alpha_ = alpha_,
                                    !.beta_ = NewBeta(self, gamma)]
    /\ pc' = "prune"
    /\ exact' = (/\ exact
                 /\ DyadicV(self'.gamma)
                 /\ DyadicV(self'.alpha_)
                 /\ Dyadic(Float(self'.beta_)))
    /\ UNCHANGED <<i, delta, raised, strict, event, hist, snap, result, budget, blas>>

-----------------------------------------------------------------------------
(* BaseRVM._prune, lines 89-115.                                           *)

\* lines 95-101: alpha_ < threshold_alpha, and when that keeps nothing the
\* first entry and, with the bias in use, the last.
KeepAlpha(alpha_, threshold_alpha, bias_used) ==
    LET keep == Arr([j \in 1..Len(alpha_) |-> Lt(alpha_[j], threshold_alpha)])
    IN  IF \E j \in 1..Len(keep) : keep[j]
        THEN keep
        ELSE Arr([j \in 1..Len(keep) |-> j = 1 \/ (bias_used /\ j = Len(keep))])

\* Mutant of BiasAfter: lines 104-105 left out, the flag is never cleared.
BiasAfterSticky(bias_used, keep_alpha) == bias_used

\* lines 103-105: the flag after the test of the bias column's mask entry
BiasAfter(bias_used, keep_alpha) ==
    IF bias_used THEN keep_alpha[Len(keep_alpha)] ELSE FALSE

\* lines 106 and 108: the mask relevance_ is indexed with
RelevanceMask(bias_used, keep_alpha) ==
    IF bias_used THEN DropLast(keep_alpha) ELSE keep_alpha

\* lines 110-115: the per-basis arrays under the mask
Compact(s, keep_alpha) ==
    [s EXCEPT !.alpha_ = Select(s.alpha_, keep_alpha),
              !.alpha_old = Select(s.alpha_old, keep_alpha),
              !.gamma = Select(s.gamma, keep_alpha),
              !.phi = SelectCols(s.phi, keep_alpha),
              !.sigma_ = SelectBoth(s.sigma_, keep_alpha),
              !.m_ = Select(s.m_, keep_alpha)]

\* The whole method on estimator s: the estimator it leaves and the
\* exception it raises.  The flag is cleared (line 105) before relevance_
\* is indexed, so an IndexError leaves it cleared and nothing compacted.
PruneCall(s, strictBuild) ==
    LET keep_alpha == KeepAlpha(s.alpha_, s.threshold_alpha, s.bias_used)
        rmask      == RelevanceMask(s.bias_used, keep_alpha)
        s1         == [s EXCEPT !.bias_used = BiasAfter(s.bias_used, keep_alpha)]
    IN  IF IndexRaises(s.relevance_, rmask, strictBuild)
        THEN [raised |-> "IndexError", self |-> s1]
        ELSE [raised |-> "none",
              self |-> Compact([s1 EXCEPT !.relevance_ = Select(s.relevance_, rmask)],
                               keep_alpha)]

\* What the per-basis state looked like when _prune was entered.
Snapshot(s, it) ==
    <<[iteration |-> it, alpha |-> s.alpha_, gamma |-> s.gamma, m |-> s.m_,
       phi |-> s.phi, relevance |-> Len(s.relevance_),
       keep |-> KeepAlpha(s.alpha_, s.threshold_alpha, s.bias_used),
       bias_used |-> s.bias_used]>>

Prune ==
    /\ pc = "prune"
    /\ LET r == PruneCall(self, strict)
       IN  /\ self' = r.self
           /\ raised' = r.raised
           /\ pc' = IF r.raised = "none" THEN "diag" ELSE "error"
    /\ snap' = Snapshot(self, i)
    /\ UNCHANGED <<i, delta, strict, event, hist, result, exact, budget, blas>>

-----------------------------------------------------------------------------
(* fit, lines 160-166: the diagnostic block.                               *)

\* verbose and ((i+1) % verb_freq == 0)
Reports(s, it) == s.verbose /\ (it + 1) % s.verb_freq = 0

\* Mutant of Report: the block shows alpha_old where it should show alpha_.
ReportStale(s, it) ==
    <<[iteration |-> it, alpha |-> s.alpha_old, beta |-> s.beta_,
       gamma |-> s.gamma, m |-> s.m_, relevance |-> Len(s.relevance_)]>>

\* what lines 161-166 print
Report(s, it) ==
    <<[iteration |-> it, alpha |-> s.alpha_, beta |-> s.beta_,
       gamma |-> s.gamma, m |-> s.m_, relevance |-> Len(s.relevance_)]>>

Diagnostic ==
    /\ pc = "diag"
    /\ event' = IF Reports(self, i) THEN Report(self, i) ELSE event
    /\ pc' = "converge"
    /\ UNCHANGED <<self, i, delta, raised, strict, hist, snap, result, exact, budget, blas>>

-----------------------------------------------------------------------------
(* fit, lines 168-174: the convergence test, and lines 176-181.            *)

\* delta = np.amax(np.absolute(alpha_ - alpha_old))
Delta(s) ==
    Amax(Arr([j \in 1..Len(s.alpha_) |-> Absolute(Sub(s.alpha_[j], s.alpha_old[j]))]))

\* delta < tol and i > 1
Stops(d, tol, it) == Lt(d, tol) /\ it > 1

Converge ==
    /\ pc = "converge"
    /\ delta' \in Compared(Delta(self))
    /\ hist' = Append(hist, [iteration |-> i, delta |-> delta',
                             small |-> Lt(delta', self.tol),
                             stop |-> Stops(delta', self.tol, i)])
    /\ IF Stops(delta', self.tol, i)
       THEN /\ pc' = "break"
            /\ UNCHANGED <<self, i>>
       ELSE /\ self' = [self EXCEPT !.alpha_old = self.alpha_]
            /\ i' = i + 1
            /\ pc' = "for"
    /\ UNCHANGED <<raised, strict, event, snap, result, exact, budget, blas>>

\* lines 176-179
FinalBias(s) == IF s.bias_used THEN <<s.m_[Len(s.m_)]>> ELSE None

Finalize ==
    /\ \/ pc = "break"
       \/ pc = "for" /\ i >= self.n_iter
    /\ self' = [self EXCEPT !.bias = FinalBias(self)]
    /\ pc' = "done"
    /\ UNCHANGED <<i, delta, raised, strict, event, hist, snap, result, exact, budget, blas>>

-----------------------------------------------------------------------------
(* RVR.predict, lines 198-208.                                             *)

\* y = np.dot(phi, m_)
PredictMean(s, phi) == MatVec(phi, s.m_)

\* 1/self.beta_ for a beta_ with which it raises nothing: Python 2 division,
\* floored, when beta_ is an int; numpy's, with 1/0 = inf, when beta_ is the
\* float64 of line 155.
OneOverBeta(b) == IF IsInt(b) THEN I(FloorOneOver(b[1])) ELSE Div(One, Float(b))

\* beta_ is a Python number equal to zero: 1/self.beta_ raises ZeroDivisionError
PythonZero(b) == (IsInt(b) \/ IsPyFloat(b)) /\ b[1] = 0

\* MSE = (1/beta_) + np.dot(phi, np.dot(sigma_, phi.T))
PredictMSE(s, phi) ==
    Arr([a \in 1..Len(phi) |->
        Arr([b \in 1..Len(phi) |->
            Add(OneOverBeta(s.beta_), Dot(phi[a], MatVec(s.sigma_, phi[b])))])])

\* the second value returned: MSE[:, 0]
ReturnedMSE(MSE) == Col(MSE, 1)

\* The exception predict(X, eval_MSE) raises on estimator s, for an X of
\* Len(s.m_) columns: a missing attribute, 1/0 on a Python int or float
\* beta_, or a sigma_ left by an earlier fit whose size is not that of m_.
PredictRaises(s, eval_MSE) ==
    IF s.m_ = Unset THEN "AttributeError"
    ELSE IF ~eval_MSE THEN "none"
    ELSE IF PythonZero(s.beta_) THEN "ZeroDivisionError"
    ELSE IF s.sigma_ = Unset THEN "AttributeError"
    ELSE IF Len(s.sigma_) # Len(s.m_) THEN "ValueError"
    ELSE "none"

Predict ==
    /\ pc \in Rest
    /\ \E phi \in NewInputs(IF self.m_ = Unset THEN 1 ELSE Len(self.m_)),
          eval_MSE \in BOOLEAN :
          IF PredictRaises(self, eval_MSE) # "none"
          THEN /\ raised' = PredictRaises(self, eval_MSE)
               /\ pc' = "error"
               /\ result' = NoResult
          ELSE /\ result' = <<[phi |-> phi, eval_MSE |-> eval_MSE,
                               y |-> PredictMean(self, phi),
                               MSE |-> IF eval_MSE
                                       THEN ReturnedMSE(PredictMSE(self, phi))
                                       ELSE <<>>]>>
               /\ pc' = "predicted"
               /\ raised' = "none"
    /\ UNCHANGED <<self, i, delta, strict, event, hist, snap, exact, budget, blas>>

-----------------------------------------------------------------------------
(* BaseRVM.set_params, lines 83-87: setattr for every keyword argument.    *)

RECURSIVE SetAttrs(_, _, _)
SetAttrs(s, kw, j) ==
    IF j > Len(kw) THEN s
    ELSE SetAttrs([s EXCEPT ![kw[j][1]] = kw[j][2]], kw, j + 1)

SetParams ==
    /\ pc \in Rest
    /\ budget > 0
    /\ \E kw \in Kwargs : self' = SetAttrs(self, kw, 1)
    /\ budget' = budget - 1
    /\ pc' = "set"
    /\ raised' = "none"
    /\ result' = NoResult
    /\ UNCHANGED <<i, delta, strict, event, hist, snap, exact, blas>>

-----------------------------------------------------------------------------

Next ==
    \/ FitStart
    \/ Posterior
    \/ Update
    \/ Prune
    \/ Diagnostic
    \/ Converge
    \/ Finalize
    \/ Predict
    \/ SetParams

Spec == Init /\ [][Next]_vars

-----------------------------------------------------------------------------
(* Where else rounding could decide what the code does: a division by a  *)
(* weight or a residual that is zero (lines 152, 156) and a comparison    *)
(* whose two sides are equal (alpha_ < threshold_alpha at line 95,        *)
(* delta < tol at line 170), when the values that lead there were not all *)
(* computed without rounding.  No run of Spec gets there.                 *)

\* np.dot(u, v) is zero because each of its terms is
TermwiseZero(u, v) == \A j \in 1..Len(u) : Mul(u[j], v[j]) = Zero

\* A zero that no rounding can move: of sigma_ when the system is diagonal,
\* of a weight or a residual when every term of its sum is zero.
ZerosAreExact(s) ==
    LET A   == PrecisionMatrix(s)
        Xty == Arr([a \in 1..Len(s.alpha_) |-> Dot(Col(s.phi, a), s.y)])
    IN  /\ \A a \in 1..Len(A) : \A b \in 1..Len(A) :
              (a # b /\ s.sigma_[a][b] = Zero) =>
                  \A c \in 1..Len(A) : \A d \in 1..Len(A) : c # d => A[c][d] = Zero
        /\ \A j \in 1..Len(s.m_) :
              s.m_[j] = Zero => TermwiseZero(s.sigma_[j], Xty)
        /\ (~s.beta_fixed /\ ResidualSS(s) = Zero) =>
              \A n \in 1..Len(s.y) :
                  s.y[n] = Zero /\ TermwiseZero(s.phi[n], s.m_)

TiesAreExact ==
    /\ pc = "update" => (exact \/ ZerosAreExact(self))
    /\ pc = "prune" =>
          \/ exact
          \/ \A j \in 1..Len(self.alpha_) : self.alpha_[j] # self.threshold_alpha
    /\ pc = "converge" => (exact \/ Delta(self) # self.tol)

-----------------------------------------------------------------------------
(* Shared vocabulary of the properties below.                              *)

K(s) == Len(s.alpha_)                         \* retained basis functions
BiasCount(s) == IF s.bias_used THEN 1 ELSE 0

\* fit is between two passes or past the loop, with at least one pass done:
\* the last statement fit ran was the convergence test or a later one.
AtBoundary == hist # <<>> /\ pc \in {"for", "break", "done"}

\* _prune has returned in the current pass and nothing ran since.
JustPruned == pc = "diag"

\* _prune has raised (the index of line 106 or 108) and fit with it
PruneRaised == pc = "error" /\ raised = "IndexError"

\* the stored relevance set: the rows of relevance_
RelevanceSetSize(s) == Len(s.relevance_)

\* the vector `old` restricted to the index set S, order kept
Pick(old, S) ==
    [j \in 1..Cardinality(S) |->
        old[CHOOSE x \in S : Cardinality({z \in S : z < x}) = j - 1]]

\* alpha_ < threshold_alpha, entry by entry, with no forced retention
RawKeep(alpha_, threshold_alpha) ==
    { j \in 1..Len(alpha_) : Lt(alpha_[j], threshold_alpha) }

\* the last _prune call found no alpha below the threshold
ForcedRetention ==
    /\ JustPruned \/ PruneRaised
    /\ RawKeep(snap[1].alpha, self.threshold_alpha) = {}

\* the places forced retention keeps: the first and, with the bias in use, the last
ForcedPlaces == {1} \cup (IF snap[1].bias_used THEN {Len(snap[1].alpha)} ELSE {})

-----------------------------------------------------------------------------
(* C1 (as written): at every iteration boundary, for every input and      *)
(* every pass, all per-basis state has one size k: alpha, alpha_old, m,   *)
(* gamma, both dimensions of sigma, the columns of phi, and the relevance *)
(* set.  A boundary is any state from the return of _prune, or the        *)
(* exception that ended it, to the start of the next pass.                *)
C1_AllSizesEqual ==
    (JustPruned \/ PruneRaised \/ pc = "converge" \/ AtBoundary) =>
        /\ Len(self.alpha_old) = K(self)
        /\ Len(self.m_) = K(self)
        /\ Len(self.gamma) = K(self)
        /\ Len(self.sigma_) = K(self)
        /\ \A r \in 1..Len(self.sigma_) : Len(self.sigma_[r]) = K(self)
        /\ \A n \in 1..Len(self.phi) : Len(self.phi[n]) = K(self)
        /\ RelevanceSetSize(self) = K(self)

-----------------------------------------------------------------------------
(* C2 (as written): whatever the input and threshold_alpha, pruning never *)
(* fails and never empties the model: after fit (of an X that has a       *)
(* column besides the bias) the relevance set and the retained columns    *)
(* number at least one, at least two when the bias is still in use; and a *)
(* pruning pass whose keep test fails everywhere returns with exactly the *)
(* first basis function and, with the bias in use, the last column.       *)
C2_NonEmptyModel ==
    /\ (pc = "done" /\ Len(self.labels) >= 1) =>
          /\ K(self) >= 1
          /\ RelevanceSetSize(self) >= 1
          /\ self.bias_used => K(self) >= 2
    /\ ForcedRetention =>
          /\ raised = "none"
          /\ self.alpha_ = Pick(snap[1].alpha, ForcedPlaces)
          /\ self.m_ = Pick(snap[1].m, ForcedPlaces)
          /\ \A n \in 1..Len(self.phi) :
                self.phi[n] = Pick(snap[1].phi[n], ForcedPlaces)

-----------------------------------------------------------------------------
(* C3: the number of retained basis functions never grows during fit, and *)
(* the retained columns of phi are always a selection of the previous     *)
(* ones in their previous order.                                          *)
C3_Monotone ==
    [][(pc \in InFit) =>
          (/\ K(self') <= K(self)
           /\ Len(self'.relevance_) <= Len(self.relevance_)
           /\ \E S \in SUBSET (1..K(self)) :
                 \A n \in 1..Len(self.phi) : self'.phi[n] = Pick(self.phi[n], S))
      ]_vars

\* a pass after the first one pruned a column
C3_Witness ==
    /\ JustPruned
    /\ snap[1].iteration >= 1
    /\ K(self) < Len(snap[1].alpha)

-----------------------------------------------------------------------------
(* C4 (as written): delta is the largest |alpha - alpha_old| over the     *)
(* retained basis functions, the two vectors having one length; fit       *)
(* leaves the loop by break exactly at the first pass of index > 1 whose  *)
(* delta is < tol, never earlier; otherwise alpha_old becomes alpha and   *)
(* the loop goes on; and a fit that never converges runs exactly n_iter   *)
(* passes and ends normally: short of a singular system, which aborts it, *)
(* no pass ends fit before.                                               *)
NoStopBefore(n) ==
    \A j \in 1..n : ~hist[j].stop /\ ~(hist[j].small /\ hist[j].iteration > 1)

C4_Convergence ==
    /\ \A j \in 1..Len(hist) : hist[j].iteration = j - 1
    /\ pc \in InFit \cup {"done"} =>
          \A j \in 1..Len(hist) : hist[j].small = Lt(hist[j].delta, self.tol)
    /\ pc = "converge" => Len(self.alpha_old) = Len(self.alpha_)
    /\ (pc = "for" /\ hist # <<>>) => self.alpha_old = self.alpha_
    /\ pc = "break" => delta \in Compared(Delta(self))
    /\ pc \in {"break", "done"} =>
          /\ raised = "none"
          /\ IF i < self.n_iter
             THEN /\ Len(hist) = i + 1
                  /\ i > 1
                  /\ hist[i + 1].stop
                  /\ hist[i + 1].small
                  /\ NoStopBefore(i)
             ELSE /\ Len(hist) = self.n_iter
                  /\ NoStopBefore(Len(hist))
    /\ ~PruneRaised

-----------------------------------------------------------------------------
(* C5 (as written): the labels stay aligned with the retained basis       *)
(* functions: after fit there is one label per retained column, the bias  *)
(* column excepted.                                                       *)
C5_LabelsAligned ==
    AtBoundary => Len(self.labels) = K(self) - BiasCount(self)

-----------------------------------------------------------------------------
(* C6 (as written): with the variance flag, entry j of the second value   *)
(* predict returns is 1/beta + (phi sigma phi^T)[j][j].                    *)
C6_VarianceIsDiagonal ==
    (pc = "predicted" /\ result[1].eval_MSE) =>
        \A j \in 1..Len(result[1].phi) :
            result[1].MSE[j] =
                Add(Div(One, Float(self.beta_)),
                    Dot(result[1].phi[j], MatVec(self.sigma_, result[1].phi[j])))

-----------------------------------------------------------------------------
(* C7: bias_used only ever goes from on to off; a pruning pass clears it  *)
(* exactly when the bias column's mask entry is false; while it is on the *)
(* last retained column is the last input column; and when fit finishes   *)
(* bias is the last weight m[-1] if bias_used is still on, else None.     *)
C7_BiasFlag ==
    [][/\ (pc \in InFit \/ pc' = "for") => (self'.bias_used => self.bias_used)
       /\ pc = "prune" =>
             self'.bias_used =
                (/\ self.bias_used
                 /\ \/ K(self) \in RawKeep(self.alpha_, self.threshold_alpha)
                    \/ RawKeep(self.alpha_, self.threshold_alpha) = {})
       /\ (pc = "prune" /\ pc' = "diag" /\ self'.bias_used) =>
             /\ Col(self'.phi, K(self')) = Col(self.phi, K(self))
             /\ self'.m_[K(self')] = self.m_[K(self)]
       /\ (pc' = "done" /\ pc # "done") =>
             self'.bias = IF self'.bias_used
                          THEN <<self'.m_[Len(self'.m_)]>>
                          ELSE None
      ]_vars

\* fit finished with the bias kept after another column was pruned
C7_Witness ==
    /\ pc = "done"
    /\ self.bias # None
    /\ hist # <<>>
    /\ K(self) < Len(self.labels) + 1

-----------------------------------------------------------------------------
(* C8 (as written): _prune is idempotent: called again right after a      *)
(* call, with alpha and the threshold unchanged, it leaves every          *)
(* attribute as that call left it, also after a forced retention.         *)
C8_PruneIdempotent ==
    (JustPruned \/ PruneRaised) => PruneCall(self, strict).self = self

-----------------------------------------------------------------------------
(* C9 (as written): the diagnostic block of a pass is emitted before that *)
(* pass prunes, so it reports the pre-prune alpha, gamma, m and count.    *)
C9_ReportsBeforePrune ==
    (pc = "converge" /\ Reports(self, i)) =>
        /\ event[1].iteration = i
        /\ event[1].alpha = snap[1].alpha
        /\ event[1].gamma = snap[1].gamma
        /\ event[1].m = snap[1].m
        /\ event[1].relevance = snap[1].relevance

(* C9 (amended): a pass runs _posterior, the hyperparameter update,       *)
(* _prune, the diagnostic block (when verbose and (i+1) % verb_freq = 0)  *)
(* and the convergence test, in this order: the block is emitted after    *)
(* that pass pruned and reports the post-prune alpha, gamma, m and count. *)
C9_ReportsAfterPrune ==
    /\ pc \in {"diag", "converge"} => snap[1].iteration = i
    /\ (pc = "converge" /\ Reports(self, i)) =>
          /\ event[1].iteration = i
          /\ event[1].alpha = self.alpha_
          /\ event[1].beta = self.beta_
          /\ event[1].gamma = self.gamma
          /\ event[1].m = self.m_
          /\ event[1].relevance = Len(self.relevance_)
    /\ (pc = "converge" /\ ~Reports(self, i)) =>
          (event = NoEvent \/ event[1].iteration < i)

\* a block was emitted in a pass that pruned a column
C9_Witness ==
    /\ pc = "converge"
    /\ Reports(self, i)
    /\ Len(event[1].alpha) < Len(snap[1].alpha)

-----------------------------------------------------------------------------
(* C10 (as written): with beta not fixed, a zero residual sum of squares  *)
(* or a non-positive numerator n_samples - sum(gamma) leaves beta as it   *)
(* was; with beta fixed no pass changes beta.                             *)
C10_BetaGuard ==
    [][pc = "update" =>
          /\ self.beta_fixed => self'.beta_ = self.beta_
          /\ (/\ ~self.beta_fixed
              /\ \/ ResidualSS(self) = Zero
                 \/ BetaNumerator(self, self'.gamma) = Zero
                 \/ Lt(BetaNumerator(self, self'.gamma), Zero))
             => Float(self'.beta_) = Float(self.beta_)
      ]_vars

=============================================================================
